---------------------------- MODULE Spec2Model ----------------------------
(***************************************************************************)
(* CellularGrowthSimulator (celular_growth_simulator.py): the two growth   *)
(* curves, the analytic half-capacity solver _calcular_tiempo_medio, and   *)
(* the slider -> _update_plot callback wiring.                             *)
(*                                                                         *)
(* Numbers.  The program computes in IEEE-754 binary64 (Python float and   *)
(* numpy.float64).  The model keeps the structure of that format: signed   *)
(* zeros, signed infinities, NaN, round-to-nearest after every operation,  *)
(* overflow to infinity, underflow to zero, unordered comparisons with     *)
(* NaN; and it keeps the difference between numpy arithmetic (a warning,   *)
(* then inf/nan) and Python float arithmetic (ZeroDivisionError,           *)
(* OverflowError).  What is reduced is the significand: a finite number is *)
(* s * m * 10^e with a four-digit decimal significand m in 1000..9999.     *)
(***************************************************************************)
EXTENDS Integers, Sequences, FiniteSets

VARIABLES
    K, Tf, Td,          \* self.K, self.Tf, self.Td: set once by __init__
    N0_slider,          \* self.N0_slider.value
    r_slider,           \* self.r_slider.value
    alpha_slider,       \* self.alpha_slider.value
    output_plot,        \* what self.output_plot shows
    displayed,          \* show_simulation has displayed the widgets
    n_changes,          \* slider change events and show_simulation calls so far
    n_updates,          \* executions of _update_plot so far
    call,               \* the last direct call of a core function, with its result
    memo                \* an earlier direct call, kept for comparison

vars == <<K, Tf, Td, N0_slider, r_slider, alpha_slider, output_plot,
          displayed, n_changes, n_updates, call, memo>>

--------------------------------------------------------------------------
(* The float format *)

\* Largest and smallest decimal exponent of a finite nonzero float64:
\* 1.8e308 and 4.9e-324.
MaxExp == 308
MinExp == -324

MantLo == 10^3
MantHi == 10^4 - 1

\* Operands are evaluated once, before the operation, as Python does it.
Let(x, F(_)) == CHOOSE v \in {F(a) : a \in {x}} : TRUE
Strict1(Op(_), x) == CHOOSE v \in {Op(a) : a \in {x}} : TRUE
Strict2(Op(_, _), x, y) == CHOOSE v \in {Op(a, b) : a \in {x}, b \in {y}} : TRUE

NaN == [k |-> "nan", s |-> 1, m |-> 0, e |-> 0]
Inf(s) == [k |-> "inf", s |-> s, m |-> 0, e |-> 0]
Zero(s) == [k |-> "fin", s |-> s, m |-> 0, e |-> 0]

IsNaN(x) == x.k = "nan"
IsInf(x) == x.k = "inf"
IsFin(x) == x.k = "fin"
IsZero(x) == x.k = "fin" /\ x.m = 0

RECURSIVE Pow10(_)
Pow10(n) == IF n <= 0 THEN 1 ELSE 10 * Pow10(n - 1)

\* Decimal digits of the natural n (n < 2^31).
NumDigits(n) == CHOOSE d \in 1..10 : Pow10(d - 1) <= n /\ (d = 10 \/ n < Pow10(d))

\* Round the natural n to four significant digits, ties to even.
\* The result is <<m, shift>> with n ~ m * 10^shift.
RoundSigD(n, d) ==
    IF d <= 4 THEN <<n * Pow10(4 - d), d - 4>>
    ELSE LET p == Pow10(d - 4)
             q == n \div p
             r == n % p
             up == (2 * r > p) \/ (2 * r = p /\ q % 2 = 1)
             q1 == IF up THEN q + 1 ELSE q
         IN  IF q1 > MantHi THEN <<MantLo, d - 4 + 1>> ELSE <<q1, d - 4>>

RoundSig(n) == Strict2(RoundSigD, n, NumDigits(n))

\* The float nearest to s * n * 10^e (n a natural): rounding, then overflow
\* to infinity and underflow to zero.
Range(s, m, e) ==
    IF e + 3 > MaxExp THEN Inf(s)
    ELSE IF e + 3 < MinExp THEN Zero(s)
    ELSE [k |-> "fin", s |-> s, m |-> m, e |-> e]

Norm(s, n, e) ==
    CHOOSE v \in {IF nn = 0 THEN Zero(s)
                  ELSE CHOOSE w \in {Range(s, r[1], e + r[2]) : r \in {RoundSig(nn)}} : TRUE
                  : nn \in {n}} : TRUE

\* A Python int or float literal: n * 10^e.
Num(n, e) == IF n < 0 THEN Norm(-1, -n, e) ELSE Norm(1, n, e)
Int2F(n) == Num(n, 0)

Neg(x) == IF IsNaN(x) THEN x ELSE [x EXCEPT !.s = -x.s]
Abs(x) == IF IsNaN(x) THEN x ELSE [x EXCEPT !.s = 1]

\* x * y, the same for Python floats and numpy: no exception.
MulV(x, y) ==
    IF IsNaN(x) \/ IsNaN(y) THEN NaN
    ELSE IF (IsInf(x) /\ IsZero(y)) \/ (IsZero(x) /\ IsInf(y)) THEN NaN
    ELSE IF IsInf(x) \/ IsInf(y) THEN Inf(x.s * y.s)
    ELSE Norm(x.s * y.s, x.m * y.m, x.e + y.e)

Mul(x, y) == Strict2(MulV, x, y)

\* x + y, the same for Python floats and numpy: no exception.
AddV(x, y) ==
    IF IsNaN(x) \/ IsNaN(y) THEN NaN
    ELSE IF IsInf(x) /\ IsInf(y) THEN (IF x.s = y.s THEN x ELSE NaN)
    ELSE IF IsInf(x) THEN x
    ELSE IF IsInf(y) THEN y
    ELSE IF IsZero(x) /\ IsZero(y) THEN (IF x.s = -1 /\ y.s = -1 THEN Zero(-1) ELSE Zero(1))
    ELSE IF IsZero(x) THEN y
    ELSE IF IsZero(y) THEN x
    ELSE LET hi == IF x.e >= y.e THEN x ELSE y
             lo == IF x.e >= y.e THEN y ELSE x
             d == hi.e - lo.e
         IN  IF d > 5 THEN hi
             ELSE LET n == hi.s * hi.m * Pow10(d) + lo.s * lo.m
                  IN  IF n = 0 THEN Zero(1)
                      ELSE IF n < 0 THEN Norm(-1, -n, lo.e)
                      ELSE Norm(1, n, lo.e)

Add(x, y) == Strict2(AddV, x, y)

Sub(x, y) == Add(x, Neg(y))

\* numpy true division (np.float64 operand): x/0 is inf or nan, no exception.
DivV(x, y) ==
    IF IsNaN(x) \/ IsNaN(y) THEN NaN
    ELSE IF IsInf(x) /\ IsInf(y) THEN NaN
    ELSE IF IsInf(x) THEN Inf(x.s * y.s)
    ELSE IF IsInf(y) THEN Zero(x.s * y.s)
    ELSE IF IsZero(y) THEN (IF IsZero(x) THEN NaN ELSE Inf(x.s * y.s))
    ELSE IF IsZero(x) THEN Zero(x.s * y.s)
    ELSE LET n == x.m * Pow10(5)
             q == n \div y.m
             r == n % y.m
         IN  Norm(x.s * y.s, 10 * q + (IF r = 0 THEN 0 ELSE 1), x.e - y.e - 6)

Div(x, y) == Strict2(DivV, x, y)

\* -1, 0, 1 for two floats neither of which is NaN.
CmpV(x, y) ==
    LET d == Sub(x, y) IN
    IF IsNaN(d) THEN 0
    ELSE IF IsZero(d) THEN 0
    ELSE d.s

Cmp(x, y) == Strict2(CmpV, x, y)

\* Comparisons: False as soon as one side is NaN.
Gt(x, y) == ~IsNaN(x) /\ ~IsNaN(y) /\ Cmp(x, y) = 1
Ge(x, y) == ~IsNaN(x) /\ ~IsNaN(y) /\ Cmp(x, y) >= 0
Le(x, y) == ~IsNaN(x) /\ ~IsNaN(y) /\ Cmp(x, y) <= 0
Lt(x, y) == ~IsNaN(x) /\ ~IsNaN(y) /\ Cmp(x, y) = -1

Zero0 == Zero(1)

\* An exception raised by a Python float operation.
Exc(name) == [k |-> "exc", s |-> 1, m |-> 0, e |-> 0, name |-> name]
IsExc(x) == x.k = "exc"

\* x ** 2 on a Python float (float_pow): OverflowError when a finite x
\* overflows, where numpy and float multiplication would give inf.
PyPow2V(x) ==
    LET p == Mul(x, x) IN
    IF IsFin(x) /\ IsInf(p) THEN Exc("OverflowError") ELSE p

PyPow2(x) == Strict1(PyPow2V, x)

\* x / y on two Python numbers (float_div): ZeroDivisionError when y is zero.
PyDiv(x, y) ==
    Let(y, LAMBDA d : IF IsZero(d) THEN Exc("ZeroDivisionError") ELSE Div(x, d))

\* Python's max(a, b): b when b > a, else a (the first maximal item).
PyMax(a, b) == Strict2(LAMBDA x, y : IF Gt(y, x) THEN y ELSE x, a, b)

RECURSIVE ISqrtFrom(_, _)
ISqrtFrom(n, g) ==
    CHOOSE v \in {IF h >= g THEN g ELSE ISqrtFrom(n, h)
                  : h \in {(g + n \div g) \div 2}} : TRUE

\* floor(sqrt(n)) by Newton's iteration from above.
ISqrtV(n) == IF n < 2 THEN n ELSE ISqrtFrom(n, n)

ISqrt(n) == Strict1(ISqrtV, n)

\* np.sqrt: nan below zero (a warning, no exception).
SqrtV(x) ==
    IF IsNaN(x) THEN NaN
    ELSE IF IsZero(x) THEN x
    ELSE IF x.s = -1 THEN NaN
    ELSE IF IsInf(x) THEN x
    ELSE LET odd == x.e % 2 = 1
             n == IF odd THEN x.m * Pow10(5) ELSE x.m * Pow10(4)
             ee == IF odd THEN (x.e - 5) \div 2 ELSE (x.e - 4) \div 2
             f == ISqrt(n)
             up == n - f * f > f
         IN  Norm(1, IF up THEN f + 1 ELSE f, ee)

Sqrt(x) == Strict1(SqrtV, x)

\* ln 2 and ln 10 to five decimals, as fixed-point integers.
Ln2Fix == 69315
Ln10Fix == 230259
LogScale == 10^5

\* 2 * atanh(z) for 0 <= z <= 1/3, z and the result in units of 1/LogScale.
Atanh2V(z) ==
    LET z2 == (z * z) \div LogScale
        z3 == (z2 * z) \div LogScale
        z5 == (z3 * z2) \div LogScale
        z7 == (z5 * z2) \div LogScale
        z9 == (z7 * z2) \div LogScale
    IN  2 * (z + z3 \div 3 + z5 \div 5 + z7 \div 7 + z9 \div 9)

Atanh2(z) == Strict1(Atanh2V, z)

\* np.log: -inf at zero and nan below zero (a warning, no exception).
\* For x = m * 10^e: ln x = ln(m / (1000 * 2^j)) + j ln 2 + (e + 3) ln 10,
\* with j chosen so that the first argument lies in [1, 2).
LogV(x) ==
    IF IsNaN(x) THEN NaN
    ELSE IF IsZero(x) THEN Inf(-1)
    ELSE IF x.s = -1 THEN NaN
    ELSE IF IsInf(x) THEN x
    ELSE LET j == IF x.m >= 8000 THEN 3 ELSE IF x.m >= 4000 THEN 2
                  ELSE IF x.m >= 2000 THEN 1 ELSE 0
             dd == MantLo * 2^j
             z == ((x.m - dd) * LogScale) \div (x.m + dd)
             l == Atanh2(z) + j * Ln2Fix + (x.e + 3) * Ln10Fix
         IN  IF l < 0 THEN Norm(-1, -l, -5) ELSE Norm(1, l, -5)

\* Variant np.log(abs(A)): a negative argument gets a finite logarithm.
LogOfAbs(x) == Strict1(LogV, Abs(x))

Log(x) == Strict1(LogV, x)

ExpScale == 10^4
Ln10Exp == 23026

\* The float x (|x| < 1000) as an integer in units of 1/ExpScale.
ToFixV(x) ==
    IF IsZero(x) THEN 0
    ELSE IF x.e + 4 >= 0 THEN x.s * x.m * Pow10(x.e + 4)
    ELSE IF x.e + 4 < -5 THEN 0
    ELSE x.s * ((x.m + Pow10(-(x.e + 4)) \div 2) \div Pow10(-(x.e + 4)))

ToFix(x) == Strict1(ToFixV, x)

RECURSIVE ExpSeries(_, _, _, _)
\* sum of f^i / i! from term i on, in units of 1/ExpScale.
ExpSeries(f, term, i, acc) ==
    IF term = 0 \/ i > 30 THEN acc
    ELSE CHOOSE v \in {ExpSeries(f, nxt, i + 1, a + nxt)
                       : nxt \in {(term * f + (i * ExpScale) \div 2) \div (i * ExpScale)},
                         a \in {acc}} : TRUE

\* np.exp: inf on overflow, zero on underflow (a warning, no exception).
\* exp(x) = 10^k * exp(f) with x = k ln 10 + f and 0 <= f < ln 10.
ExpV(x) ==
    IF IsNaN(x) THEN NaN
    ELSE IF IsInf(x) THEN (IF x.s = 1 THEN x ELSE Zero(1))
    ELSE IF IsZero(x) THEN Int2F(1)
    ELSE IF x.e + 3 >= 3 THEN (IF x.s = 1 THEN Inf(1) ELSE Zero(1))
    ELSE LET xf == ToFix(x)
             kk == xf \div Ln10Exp
             f == xf - kk * Ln10Exp
         IN  Norm(1, ExpSeries(f, ExpScale, 1, ExpScale), kk - 4)

Exp(x) == Strict1(ExpV, x)

\* 2 ** y (numpy power on an array, float pow on a scalar): exp(y ln 2),
\* and exactly 1 at y = 0.
Pow2V(y) ==
    IF IsNaN(y) THEN NaN
    ELSE IF IsZero(y) THEN Int2F(1)
    ELSE Exp(Mul(y, Num(6931, -4)))

Pow2(y) == Strict1(Pow2V, y)

--------------------------------------------------------------------------
(* The core functions *)

\* N0 * (2 ** (t/Td)) * np.exp(-0.02*t)
crecimiento_sin_tratamiento(t, N0, Td_) ==
    Let(t, LAMBDA tt :
        Mul(Mul(N0, Pow2(Div(tt, Td_))), Exp(Mul(Num(-2, -2), tt))))

\* Variant A = (K - N0) / K.
HeadroomOverK(K_, N0) == Let(K_, LAMBDA k : PyDiv(Sub(k, N0), k))

\* A = (K - N0) / N0 on Python numbers.
HeadroomA(K_, N0) == Let(N0, LAMBDA n : PyDiv(Sub(K_, n), n))

\* K / (1 + A * np.exp(-r * t * (1 - alpha * t))); the ZeroDivisionError of
\* A = (K - N0) / N0 propagates to the caller.
crecimiento_con_tratamiento(t, N0, K_, r, alpha) ==
    Let(HeadroomA(K_, N0), LAMBDA A :
    Let(t, LAMBDA tt :
        IF IsExc(A) THEN A
        ELSE Div(K_, Add(Int2F(1),
                 Mul(A, Exp(Mul(Mul(Neg(r), tt), Sub(Int2F(1), Mul(alpha, tt)))))))))

\* The outcomes of the solver: None, a time, or (inside the try block) an
\* exception on its way out.
None == [tag |-> "none"]
Time(t) == [tag |-> "time", t |-> t]
Raised(name) == [tag |-> "raised", name |-> name]

\* a_param, b_param, c_param.
Coeffs(r, alpha, A) == [a |-> Mul(Neg(r), alpha), b |-> r, c |-> Neg(Log(A))]

\* discriminant = b_param**2 - 4*a_param*c_param, or the OverflowError of
\* b_param**2.
Discriminant(q) ==
    Let(PyPow2(q.b), LAMBDA b2 :
        IF IsExc(b2) THEN b2 ELSE Sub(b2, Mul(Mul(Int2F(4), q.a), q.c)))

\* Variant dividing by a_param instead of 2*a_param.
RootsOverA(q, disc) ==
    <<Div(Add(Neg(q.b), Sqrt(disc)), q.a),
      Div(Sub(Neg(q.b), Sqrt(disc)), q.a)>>

\* t1 and t2.
Roots(q, disc) ==
    <<Div(Add(Neg(q.b), Sqrt(disc)), Mul(Int2F(2), q.a)),
      Div(Sub(Neg(q.b), Sqrt(disc)), Mul(Int2F(2), q.a))>>

\* Variant taking min(t1, t2) when both roots are positive.
SelectSmallerRoot(t1, t2) ==
    IF Gt(t1, Zero0) /\ Gt(t2, Zero0) THEN (IF Gt(t1, t2) THEN t2 ELSE t1)
    ELSE IF Gt(t1, Zero0) THEN t1 ELSE t2

\* max(t1, t2) if t1 > 0 and t2 > 0 else (t1 if t1 > 0 else t2)
SelectRoot(t1, t2) ==
    IF Gt(t1, Zero0) /\ Gt(t2, Zero0) THEN PyMax(t1, t2)
    ELSE IF Gt(t1, Zero0) THEN t1 ELSE t2

\* Variant without the upper bound of the range check.
ValidTimeNoUpperBound(t, Tf_) == Gt(t, Zero0)

\* t_half_analytic > 0 and t_half_analytic <= self.Tf
ValidTime(t, Tf_) == Gt(t, Zero0) /\ Le(t, Tf_)

\* The body of the try block.
TiempoMedioBody(N0, r, alpha, A, Tf_) ==
    Let(Coeffs(r, alpha, A), LAMBDA q :
    Let(Discriminant(q), LAMBDA disc :
        IF IsExc(disc) THEN Raised(disc.name)
        ELSE IF Ge(disc, Zero0)
        THEN Let(Roots(q, disc), LAMBDA ts :
             Let(SelectRoot(ts[1], ts[2]), LAMBDA t_half :
                 IF ValidTime(t_half, Tf_) THEN Time(t_half) ELSE None))
        ELSE None))

\* Variant without the except clause: the exception leaves the function.
NoHandler(outcome) == outcome

\* try: ... except: pass, then return None
TryExceptPass(outcome) ==
    Let(outcome, LAMBDA o : IF o.tag = "raised" THEN None ELSE o)

calcular_tiempo_medio(N0, r, alpha, A, Tf_) ==
    TryExceptPass(TiempoMedioBody(N0, r, alpha, A, Tf_))

--------------------------------------------------------------------------
(* The widgets and the plot *)

\* Events (slider changes, show_simulation calls) a run of the model takes.
MaxEvents == 3

\* Points of np.linspace(0, self.Tf, 300) the model samples: the first, the
\* last and equally spaced ones between, as linspace(0, self.Tf, NumSamples).
NumSamples == 3

\* np.linspace(0, Tf, n): i * (Tf / (n - 1)) for i = 0..n-1, the last point
\* set to Tf itself.
Linspace(stop, n) ==
    Let(Div(stop, Int2F(n - 1)), LAMBDA step :
        [i \in 1..n |-> IF i = n THEN stop ELSE Mul(Int2F(i - 1), step)])

\* What _update_plot leaves in the output widget for the slider values N0,
\* r, alpha: the figure, or the traceback the Output context manager shows
\* when the body raises.
Figure(N0, r, alpha) ==
    Let(Linspace(Tf, NumSamples), LAMBDA t :
    Let(HeadroomA(K, N0), LAMBDA A_auto :
    Let(Div(K, Int2F(2)), LAMBDA half :
    Let(calcular_tiempo_medio(N0, r, alpha, A_auto, Tf), LAMBDA t_half :
        IF IsExc(A_auto) THEN [kind |-> "traceback", name |-> A_auto.name]
        ELSE [kind |-> "figure",
              t |-> t,
              sin |-> [i \in 1..NumSamples |->
                          crecimiento_sin_tratamiento(t[i], N0, Td)],
              con |-> [i \in 1..NumSamples |->
                          crecimiento_con_tratamiento(t[i], N0, K, r, alpha)],
              half |-> half,
              marker |-> IF t_half = None THEN <<>> ELSE <<t_half.t, half>>,
              text_T |-> IF t_half = None THEN <<>> ELSE <<t_half.t>>,
              param_text |-> [K |-> K, N0 |-> N0, r |-> r, alpha |-> alpha,
                              A |-> A_auto]]))))

\* Variant in which the axis limit self.K * 1.1 is written back to self.K.
update_plot_scaling_K(N0, r, alpha) ==
    /\ output_plot' = Figure(N0, r, alpha)
    /\ n_updates' = n_updates + 1
    /\ K' = Mul(K, Num(11, -1))
    /\ UNCHANGED <<Tf, Td>>

\* _update_plot(change): reads the three sliders as they are when the
\* callback runs and replaces the content of the output widget.
update_plot(N0, r, alpha) ==
    /\ output_plot' = Figure(N0, r, alpha)
    /\ n_updates' = n_updates + 1
    /\ UNCHANGED <<K, Tf, Td>>

\* Values the sliders take: N0 in [10, 200] step 10, r in [0.05, 1.0] step
\* 0.05, alpha in [0.001, 0.05] step 0.001.
N0Values == {Int2F(10), Int2F(50), Int2F(100), Int2F(200)}
rValues == {Num(5, -2), Num(25, -2), Int2F(1)}
alphaValues == {Num(1, -3), Num(1, -2), Num(5, -2)}

\* Constructor arguments.
KValues == {Int2F(800), Int2F(100)}
TfValues == {Int2F(40), Int2F(100)}
TdValues == {Num(35, -1)}

NoCall == [fn |-> "none"]
NoMemo == [fn |-> "none", stage |-> 0]

\* __init__: the constants, then _create_widgets and _setup_ui.
Construct(Ks, Tfs, N0s, rs, alphas) ==
    /\ K \in Ks
    /\ Tf \in Tfs
    /\ Td \in TdValues
    /\ N0_slider \in N0s
    /\ r_slider \in rs
    /\ alpha_slider \in alphas
    /\ output_plot = [kind |-> "empty"]
    /\ displayed = FALSE
    /\ n_changes = 0
    /\ n_updates = 0
    /\ call = NoCall
    /\ memo = NoMemo

\* A parameter change happened after the remembered call.
MemoSeesChange ==
    memo' = IF memo.fn # "none" /\ memo.stage = 0
            THEN [memo EXCEPT !.stage = 1] ELSE memo

\* The N0 slider takes a new value v: its observer runs _update_plot.
ChangeN0(vs) ==
    \E v \in vs :
        /\ n_changes < MaxEvents
        /\ v # N0_slider
        /\ N0_slider' = v
        /\ n_changes' = n_changes + 1
        /\ update_plot(v, r_slider, alpha_slider)
        /\ MemoSeesChange
        /\ UNCHANGED <<r_slider, alpha_slider, displayed, call>>

\* The r slider takes a new value v.
ChangeR(vs) ==
    \E v \in vs :
        /\ n_changes < MaxEvents
        /\ v # r_slider
        /\ r_slider' = v
        /\ n_changes' = n_changes + 1
        /\ update_plot(N0_slider, v, alpha_slider)
        /\ MemoSeesChange
        /\ UNCHANGED <<N0_slider, alpha_slider, displayed, call>>

\* Variant in which the alpha slider has no observer: the value changes and
\* _update_plot does not run.
ChangeAlphaUnobserved(vs) ==
    \E v \in vs :
        /\ n_changes < MaxEvents
        /\ v # alpha_slider
        /\ alpha_slider' = v
        /\ n_changes' = n_changes + 1
        /\ MemoSeesChange
        /\ UNCHANGED <<K, Tf, Td, N0_slider, r_slider, displayed, call,
                       output_plot, n_updates>>

\* The alpha slider takes a new value v.
ChangeAlpha(vs) ==
    \E v \in vs :
        /\ n_changes < MaxEvents
        /\ v # alpha_slider
        /\ alpha_slider' = v
        /\ n_changes' = n_changes + 1
        /\ update_plot(N0_slider, r_slider, v)
        /\ MemoSeesChange
        /\ UNCHANGED <<N0_slider, r_slider, displayed, call>>

\* show_simulation: display the widgets, then self._update_plot(None).
show_simulation ==
    /\ n_changes < MaxEvents
    /\ displayed' = TRUE
    /\ n_changes' = n_changes + 1
    /\ update_plot(N0_slider, r_slider, alpha_slider)
    /\ UNCHANGED <<N0_slider, r_slider, alpha_slider, call, memo>>

--------------------------------------------------------------------------
(* Direct calls of the three core functions *)

\* A call with the same function and arguments as the remembered one, made
\* after a parameter change, moves the remembered call to stage 2.
MemoSeesCall(c) ==
    memo' = IF memo.fn = c.fn /\ memo.args = c.args /\ memo.stage >= 1
            THEN [memo EXCEPT !.stage = 2] ELSE memo

Frame == UNCHANGED <<K, Tf, Td, N0_slider, r_slider, alpha_slider,
                     output_plot, displayed, n_changes, n_updates>>

Record(c) == \E cc \in {c} : call' = cc /\ MemoSeesCall(cc) /\ Frame

\* self._calcular_tiempo_medio(N0, r, alpha, A) with A = (self.K - N0) / N0
\* as _update_plot computes it.
CallTiempoMedio(N0s, rs, alphas) ==
    \E N0 \in N0s, r \in rs, alpha \in alphas :
        \E A \in {HeadroomA(K, N0)} :
            /\ ~IsExc(A)
            /\ Record([fn |-> "calcular_tiempo_medio",
                       args |-> <<N0, r, alpha, A>>,
                       out |-> calcular_tiempo_medio(N0, r, alpha, A, Tf)])

\* self._crecimiento_sin_tratamiento(t, N0, self.Td)
CallSin(ts, N0s) ==
    \E t \in ts, N0 \in N0s :
        Record([fn |-> "crecimiento_sin_tratamiento",
                args |-> <<t, N0, Td>>,
                out |-> crecimiento_sin_tratamiento(t, N0, Td)])

\* self._crecimiento_con_tratamiento(t, N0, self.K, r, alpha)
CallCon(ts, N0s, rs, alphas) ==
    \E t \in ts, N0 \in N0s, r \in rs, alpha \in alphas :
        Record([fn |-> "crecimiento_con_tratamiento",
                args |-> <<t, N0, K, r, alpha>>,
                out |-> crecimiento_con_tratamiento(t, N0, K, r, alpha)])

\* Keep the last call for a later comparison.
Remember ==
    /\ call.fn # "none"
    /\ memo' = [fn |-> call.fn, args |-> call.args, out |-> call.out, stage |-> 0]
    /\ UNCHANGED call
    /\ Frame

\* Arguments of the direct calls: the slider ranges and beyond them
\* (N0 up to and above K, alpha zero and negative, r near the float maximum).
CallN0 == {Int2F(10), Int2F(50), Int2F(200), Int2F(400), Int2F(600),
           Int2F(800), Int2F(900)}
CallR == {Num(5, -2), Num(25, -2), Int2F(1), Num(1, 200)}
CallAlpha == {Num(-1, -2), Zero0, Num(1, -3), Num(1, -2), Num(5, -2)}
CallT == {Zero0, Int2F(12), Int2F(13), Int2F(40)}

--------------------------------------------------------------------------
(* Specifications *)

\* The simulator as the notebook user drives it.
Init == Construct(KValues, TfValues, N0Values, rValues, alphaValues)

Next ==
    \/ show_simulation
    \/ ChangeN0(N0Values)
    \/ ChangeR(rValues)
    \/ ChangeAlpha(alphaValues)

Spec == Init /\ [][Next]_vars

\* The three core functions called directly on a constructed simulator.
InitCore ==
    Construct(KValues, TfValues, {Int2F(50)}, {Num(25, -2)}, {Num(1, -2)})

\* One call per run: the functions keep no state between calls.
NextCore ==
    /\ call = NoCall
    /\ \/ CallTiempoMedio(CallN0, CallR, CallAlpha)
       \/ CallSin(CallT, CallN0)
       \/ CallCon(CallT, CallN0, CallR \ {Num(1, 200)}, CallAlpha)

SpecCore == InitCore /\ [][NextCore]_vars

\* Direct calls interleaved with parameter changes.
InitCalls ==
    Construct({Int2F(800)}, {Int2F(40)}, {Int2F(50)}, {Num(25, -2)}, {Num(1, -2)})

NextCalls ==
    \/ CallTiempoMedio({Int2F(50)}, {Num(25, -2)}, {Num(1, -2), Num(5, -2)})
    \/ CallSin({Int2F(40)}, {Int2F(50)})
    \/ CallCon({Int2F(40)}, {Int2F(50)}, {Num(25, -2)}, {Num(1, -2)})
    \/ Remember
    \/ show_simulation
    \/ ChangeN0({Int2F(50), Int2F(200)})
    \/ ChangeR({Num(25, -2), Int2F(1)})
    \/ ChangeAlpha({Num(1, -2), Num(5, -2)})

SpecCalls == InitCalls /\ [][NextCalls]_vars

--------------------------------------------------------------------------
(* Properties *)

IsTM == call.fn = "calcular_tiempo_medio"
IsSin == call.fn = "crecimiento_sin_tratamiento"
IsCon == call.fn = "crecimiento_con_tratamiento"

\* The arguments and intermediate values of the last solver call.
tmN0 == call.args[1]
tmR == call.args[2]
tmAlpha == call.args[3]
tmA == call.args[4]
tmQ == Coeffs(tmR, tmAlpha, tmA)
tmDisc == Discriminant(tmQ)
tmHasRoots == ~IsExc(tmDisc) /\ Ge(tmDisc, Zero0)
tmRoots == Roots(tmQ, tmDisc)

\* |x - y| <= tol * |y|
Close(x, y, tol) == Le(Abs(Sub(x, y)), Mul(tol, Abs(y)))

\* The quadratic as the claims state it: a = -r*alpha, b = r, c = -ln(A).
StatedQ == [a |-> Mul(Neg(tmR), tmAlpha), b |-> tmR, c |-> Neg(Log(tmA))]

\* t is a real root of a*t^2 + b*t + c up to rounding, in the form that
\* does not cancel: (2*a*t + b)^2 = b^2 - 4*a*c, both sides real and the
\* right one not negative.
IsRoot(q, t, tol) ==
    LET w == Add(Mul(Mul(Int2F(2), q.a), t), q.b)
        d == Sub(Mul(q.b, q.b), Mul(Mul(Int2F(4), q.a), q.c))
    IN  IsFin(t) /\ IsFin(d) /\ Ge(d, Zero0) /\ Close(Mul(w, w), d, tol)

\* The rounding allowance of the properties: five units in the last place
\* of a four-digit significand.
RoundTol == Num(5, -3)

tmOut == call.out
tmCandidate == SelectRoot(tmRoots[1], tmRoots[2])
tmTreated(t) == crecimiento_con_tratamiento(t, tmN0, K, tmR, tmAlpha)
HalfK == Div(K, Int2F(2))

\* Times 0, 5, 10, ... within the horizon.
GridTimes == {t \in {Int2F(5 * i) : i \in 0..20} : Le(t, Tf)}

\* The treated curve is clearly below K/2 at one grid time and clearly above
\* it at another: being continuous in t, it equals K/2 at a time between the
\* two, which is a time in (0, Tf].
CrossingInHorizon ==
    \E u, v \in GridTimes :
        /\ Lt(tmTreated(u), Mul(Num(99, -2), HalfK))
        /\ Gt(tmTreated(v), Mul(Num(101, -2), HalfK))

\* C1: whenever the treated curve equals K/2 at some time in (0, Tf], for
\* 0 < N0 < K, r > 0 and alpha >= 0, the solver returns a time, not None.
C1_CrossingIsFound ==
    (/\ IsTM
     /\ Gt(tmN0, Zero0) /\ Lt(tmN0, K)
     /\ Gt(tmR, Zero0) /\ Ge(tmAlpha, Zero0)
     /\ CrossingInHorizon)
    => tmOut.tag = "time"

\* The default parameter set: K=800, N0=50, r=0.25, alpha=0.01, Tf=40.
IsDefaultCall ==
    /\ IsTM
    /\ K = Int2F(800) /\ Tf = Int2F(40)
    /\ call.args = <<Int2F(50), Num(25, -2), Num(1, -2), Int2F(15)>>

\* C2: for the default parameter set the solver returns a time t with
\* 0 < t <= 40 at which the treated curve is K/2 = 400 up to rounding.
C2_DefaultHalfTime ==
    IsDefaultCall =>
        /\ tmOut.tag = "time"
        /\ Gt(tmOut.t, Zero0) /\ Le(tmOut.t, Int2F(40))
        /\ Close(tmTreated(tmOut.t), Int2F(400), RoundTol)

\* C3: the solver never raises: whatever the inputs (A <= 0, alpha = 0, a
\* negative discriminant, an overflowing r**2) the call completes with a
\* time or None, and an exception inside the try block, like the division
\* by a zero a_param, ends in None.
C3_NeverRaises ==
    IsTM =>
        /\ tmOut.tag \in {"time", "none"}
        /\ TiempoMedioBody(tmN0, tmR, tmAlpha, tmA, Tf).tag = "raised" => tmOut = None
        /\ IsZero(tmAlpha) => tmOut = None

C3_Witness ==
    /\ IsTM
    /\ TiempoMedioBody(tmN0, tmR, tmAlpha, tmA, Tf).tag = "raised"
    /\ tmOut = None

\* C4: whenever A <= 0, that is N0 >= K, the solver returns None.
C4_NoneWhenANotPositive ==
    IsTM /\ (Le(tmA, Zero0) \/ Ge(tmN0, K)) => tmOut = None

C4_Witness ==
    /\ IsTM
    /\ tmN0 = K /\ IsZero(tmA)
    /\ Gt(tmR, Zero0) /\ Gt(tmAlpha, Zero0)
    /\ tmHasRoots
    /\ tmOut = None

\* C5: a returned time is a real root of a*t^2 + b*t + c with a = -r*alpha,
\* b = r, c = -ln(A), up to rounding; with a negative discriminant the
\* result is None.
C5_ReturnedTimeIsRoot ==
    IsTM =>
        /\ tmOut.tag = "time" => IsRoot(StatedQ, tmOut.t, RoundTol)
        /\ Lt(Sub(Mul(StatedQ.b, StatedQ.b),
                  Mul(Mul(Int2F(4), StatedQ.a), StatedQ.c)), Zero0) => tmOut = None

C5_Witness ==
    /\ IsTM
    /\ tmOut.tag = "time"
    /\ Gt(tmAlpha, Zero0)
    /\ IsRoot(StatedQ, tmOut.t, RoundTol)

\* C6: a returned time t is finite with 0 < t <= Tf, and a selected
\* candidate outside (0, Tf] (not positive, beyond Tf, infinite, NaN) gives
\* None.
C6_TimeWithinHorizon ==
    IsTM =>
        /\ tmOut.tag = "time" =>
              IsFin(tmOut.t) /\ Gt(tmOut.t, Zero0) /\ Le(tmOut.t, Tf)
        /\ (tmHasRoots /\ ~(Gt(tmCandidate, Zero0) /\ Le(tmCandidate, Tf)))
              => tmOut = None

C6_Witness ==
    /\ IsTM
    /\ tmHasRoots
    /\ IsFin(tmCandidate) /\ Gt(tmCandidate, Tf)
    /\ tmOut = None

\* The larger of two floats neither of which is NaN.
Larger(x, y) == IF Ge(x, y) THEN x ELSE y
Smaller(x, y) == IF Ge(x, y) THEN y ELSE x
Filtered(t) == IF Gt(t, Zero0) /\ Le(t, Tf) THEN Time(t) ELSE None

\* C7: with a discriminant >= 0, the candidate is the larger root when both
\* roots are positive, the positive root when exactly one is, and the
\* result is None when neither is; the smaller of two distinct positive
\* roots is never returned.
C7_RootSelection ==
    (IsTM /\ tmHasRoots) =>
        LET t1 == tmRoots[1]
            t2 == tmRoots[2]
            p1 == Gt(t1, Zero0)
            p2 == Gt(t2, Zero0)
        IN  /\ (p1 /\ p2) => tmOut = Filtered(Larger(t1, t2))
            /\ (p1 /\ p2 /\ t1 # t2) => tmOut # Time(Smaller(t1, t2))
            /\ (p1 /\ ~p2) => tmOut = Filtered(t1)
            /\ (~p1 /\ p2) => tmOut = Filtered(t2)
            /\ (~p1 /\ ~p2) => tmOut = None

\* Two distinct positive roots, only the smaller one within the horizon.
C7_Witness ==
    /\ IsTM /\ tmHasRoots
    /\ Gt(tmRoots[1], Zero0) /\ Gt(tmRoots[2], Zero0)
    /\ Le(Smaller(tmRoots[1], tmRoots[2]), Tf)
    /\ Gt(Larger(tmRoots[1], tmRoots[2]), Tf)
    /\ tmOut = None

SameResult ==
    (memo.fn # "none" /\ call.fn = memo.fn /\ call.args = memo.args)
        => call.out = memo.out

\* C9: no step changes K, Tf or Td, and a call repeated with the same
\* arguments returns the same result whatever calls and parameter changes
\* came between.
C9_Deterministic ==
    [][K' = K /\ Tf' = Tf /\ Td' = Td /\ SameResult']_vars

\* A call, a parameter change, then the same call again.
C9_Witness ==
    /\ memo.fn # "none" /\ memo.stage = 2
    /\ call.fn = memo.fn /\ call.args = memo.args
    /\ call.out = memo.out
    /\ n_updates > 0

\* The figure drawn from the sliders' current values.
FigureOfSliders == Figure(N0_slider, r_slider, alpha_slider)
HalfTimeOfSliders ==
    calcular_tiempo_medio(N0_slider, r_slider, alpha_slider,
                          HeadroomA(K, N0_slider), Tf)

\* C10: every change event and every show_simulation ran _update_plot
\* exactly once, and once the simulation is shown the output holds the
\* figure of the current slider values: A = (K - N0)/N0 of the current N0,
\* both curves of the current N0, r, alpha, and the K/2 marker and the
\* 'T analitico' text exactly when the solver returned a time.
C10_PlotFollowsSliders ==
    /\ n_updates = n_changes
    /\ displayed =>
        /\ output_plot.kind = "figure"
        /\ output_plot.param_text =
              [K |-> K, N0 |-> N0_slider, r |-> r_slider, alpha |-> alpha_slider,
               A |-> HeadroomA(K, N0_slider)]
        /\ output_plot.sin = FigureOfSliders.sin
        /\ output_plot.con = FigureOfSliders.con
        /\ (output_plot.marker # <<>>) <=> (HalfTimeOfSliders.tag = "time")
        /\ (output_plot.text_T # <<>>) <=> (HalfTimeOfSliders.tag = "time")
        /\ HalfTimeOfSliders.tag = "time" =>
              output_plot.marker = <<HalfTimeOfSliders.t, HalfK>>

C10_Witness ==
    /\ displayed
    /\ n_changes >= 2
    /\ output_plot.kind = "figure"
    /\ output_plot.marker # <<>>

==========================================================================
